---- MODULE Spec2Model ----
(***************************************************************************)
(* A model of htmlbuilder's Element tree: the node fields, the id cache    *)
(* held by a root, and the operations that build and mutate the tree       *)
(* (src/htmlbuilder/htmlbuilder.py).                                       *)
(*                                                                         *)
(* Elements are numbered 1..MaxNodes in order of construction; Null (0)    *)
(* stands for Python's None where a field holds an Element reference.      *)
(* Any other optional value is None (the empty tuple) or Some(x) (the      *)
(* one-element tuple holding x).  A method is an operator from a heap (the *)
(* record of all fields of all elements) to a result [h, err]: the heap    *)
(* when the call returned or raised, and the exception ("ok" for a normal  *)
(* return).  A raised exception keeps every assignment made before it.     *)
(***************************************************************************)
EXTENDS Integers, Sequences, FiniteSets, TLC

\* ---- bounds of the model
MaxNodes == 4
MaxChildren == 3
MaxCalls == 4
MaxTreeCalls == 6
MaxVoidCalls == 4
MaxAttrCalls == 5
MaxInnerCalls == 4
MaxRenderCalls == 4
MaxSearchCalls == 5
MaxGrowCalls == 6
MaxDocNodes == 7
MaxParseCalls == 4

Nodes == 1..MaxNodes
Null == 0
None == <<>>
Some(x) == <<x>>

\* ---- the inputs the operations are called with
TagNames == {"div", "BR"}
IdValues == {"a", "b"}
AttrNames == {"id", "class"}

\* the names of the void tags (line 18)
VOID_ELEMENTS ==
    {"area", "base", "br", "col", "embed", "hr", "img", "input",
     "link", "meta", "param", "source", "track", "wbr"}

VARIABLES
    alloc,       \* number of Elements constructed so far
    tagName,     \* Element.tagName
    content,     \* Element.content     (None or Some(string))
    parent,      \* Element.parent      (Null or an Element)
    root,        \* Element.root        (Null or an Element)
    idcache,     \* Element.idcache     (None or Some(function id -> Element))
    isvoid,      \* Element.isvoid
    attributes,  \* Element.attributes  (None or Some(sequence of <<name, value>>))
    children,    \* Element.children    (None or Some(sequence of Elements))
    err,         \* outcome of the last call: "ok" or the exception raised
    last,        \* the last call: [op, self, arg, name, value]
    calls,       \* number of calls the run may still make
    elementstack, \* parser.elementstack of the parser in use (None before one is made)
    parserparent \* history: the element that parser was given or made as its parent

fields == <<alloc, tagName, content, parent, root, idcache, isvoid, attributes, children>>
vars == <<alloc, tagName, content, parent, root, idcache, isvoid, attributes, children,
          err, last, calls, elementstack, parserparent>>

Heap ==
    [alloc |-> alloc, tagName |-> tagName, content |-> content, parent |-> parent,
     root |-> root, idcache |-> idcache, isvoid |-> isvoid,
     attributes |-> attributes, children |-> children]

HeapNext ==
    [alloc |-> alloc', tagName |-> tagName', content |-> content', parent |-> parent',
     root |-> root', idcache |-> idcache', isvoid |-> isvoid',
     attributes |-> attributes', children |-> children']

Ok(h) == [h |-> h, err |-> "ok"]
Raise(h, e) == [h |-> h, err |-> e]
\* a call that returns the value v
Return(h, v) == [h |-> h, err |-> "ok", ret |-> v]

\* the element of a one-element set.  The({F(r) : r \in {e}}) is F of the value of
\* e, which is computed once: the result of a call, held in a local variable
The(S) == CHOOSE x \in S : TRUE

\* ---- Python dict with string keys, as a sequence of <<key, value>> in insertion order
DictHas(d, k) == \E i \in 1..Len(d) : d[i][1] = k

DictGet(d, k) ==
    IF DictHas(d, k)
    THEN Some(d[CHOOSE i \in 1..Len(d) : d[i][1] = k][2])
    ELSE None

DictSet(d, k, v) ==
    IF DictHas(d, k)
    THEN [i \in 1..Len(d) |-> IF d[i][1] = k THEN <<k, v>> ELSE d[i]]
    ELSE Append(d, <<k, v>>)

DictPop(d, k) == SelectSeq(d, LAMBDA e : e[1] # k)

\* Python truth of an optional string
Truthy(o) == o # None /\ o[1] # ""

\* ---- list.index and list.pop
IndexOf(s, x) ==
    IF \E i \in 1..Len(s) : s[i] = x
    THEN CHOOSE i \in 1..Len(s) : s[i] = x /\ \A j \in 1..(i - 1) : s[j] # x
    ELSE 0

PopAt(s, i) == [j \in 1..(Len(s) - 1) |-> IF j < i THEN s[j] ELSE s[j + 1]]

\* ---- tree shape, read off the children lists
ChildSeq(h, n) == IF h.children[n] = None THEN <<>> ELSE h.children[n][1]

ChildSet(h, n) == {ChildSeq(h, n)[i] : i \in 1..Len(ChildSeq(h, n))}

RECURSIVE Reach(_, _, _)
\* the elements reachable from the set s through children lists, s included
Reach(h, s, k) ==
    IF k = 0 THEN s
    ELSE Reach(h, s \cup UNION {ChildSet(h, n) : n \in s}, k - 1)

Subtree(h, n) == Reach(h, {n}, MaxNodes)

Descendants(h, n) == Reach(h, ChildSet(h, n), MaxNodes)

\* ---- Element.getAttribute (line 146) and the id property (line 155)
getAttribute(h, self, name) ==
    IF h.attributes[self] # None /\ h.attributes[self][1] # <<>>
    THEN DictGet(h.attributes[self][1], name)
    ELSE None

id(h, self) == getAttribute(h, self, "id")

\* ---- Element._setid (line 238): register id -> element in the cache of self, or
\* of the element self.root names.  A chain of root references that never reaches a
\* cache or a None is followed until Python's recursion limit: RecursionError.
RECURSIVE SetIdFrom(_, _, _, _, _)
SetIdFrom(h, self, i, element, fuel) ==
    IF h.idcache[self] # None
    THEN IF i \in DOMAIN h.idcache[self][1]
         THEN Raise(h, "DuplicateId")
         ELSE Ok([h EXCEPT !.idcache[self] =
                     Some([k \in DOMAIN h.idcache[self][1] \cup {i} |->
                              IF k = i THEN element ELSE h.idcache[self][1][k]])])
    ELSE IF h.root[self] # Null
    THEN IF fuel = 0
         THEN Raise(h, "RecursionError")
         ELSE SetIdFrom(h, h.root[self], i, element, fuel - 1)
    ELSE Ok(h)

_setid(h, self, i, element) == SetIdFrom(h, self, i, element, MaxNodes)

\* ---- Element._removeid (line 260)
RECURSIVE RemoveIdFrom(_, _, _, _)
RemoveIdFrom(h, self, i, fuel) ==
    IF h.idcache[self] # None
    THEN Ok([h EXCEPT !.idcache[self] =
                Some([k \in DOMAIN h.idcache[self][1] \ {i} |-> h.idcache[self][1][k]])])
    ELSE IF h.root[self] # Null
    THEN IF fuel = 0
         THEN Raise(h, "RecursionError")
         ELSE RemoveIdFrom(h, h.root[self], i, fuel - 1)
    ELSE Ok(h)

_removeid(h, self, i) == RemoveIdFrom(h, self, i, MaxNodes)

\* ---- Element._registerchild (line 276): preorder over the child's subtree, every
\* visit made on behalf of the same self
RECURSIVE _registerchild(_, _, _)
RECURSIVE RegisterEach(_, _, _, _)
\* _registerchild without the assignment of line 285: the child keeps its index
_registerchild_keepsindex(h, self, child) ==
    LET h1 == [h EXCEPT !.root[child] = h.root[self]]
        i == getAttribute(h, child, "id")
    IN  The({(IF r.err # "ok" THEN r ELSE RegisterEach(r.h, self, ChildSeq(r.h, child), 1)) :
                r \in {IF Truthy(i) THEN _setid(h1, self, i[1], child) ELSE Ok(h1)}})

_registerchild(h, self, child) ==
    LET h1 == [h EXCEPT !.root[child] = h.root[self], !.idcache[child] = None]
        i == getAttribute(h, child, "id")
    IN  The({(IF r.err # "ok" THEN r ELSE RegisterEach(r.h, self, ChildSeq(r.h, child), 1)) :
                r \in {IF Truthy(i) THEN _setid(h1, self, i[1], child) ELSE Ok(h1)}})

RegisterEach(h, self, cs, k) ==
    IF k > Len(cs) THEN Ok(h)
    ELSE The({(IF r.err # "ok" THEN r ELSE RegisterEach(r.h, self, cs, k + 1)) :
                 r \in {_registerchild(h, self, cs[k])}})

\* ---- Element._deregisterchild (line 296)
RECURSIVE _deregisterchild(_, _, _)
RECURSIVE DeregisterEach(_, _, _, _)
_deregisterchild(h, self, child) ==
    LET i == getAttribute(h, child, "id")
    IN  The({(IF r.err # "ok" THEN r
              ELSE DeregisterEach([r.h EXCEPT !.root[self] = Null], self, ChildSeq(r.h, child), 1)) :
                r \in {IF Truthy(i) THEN _removeid(h, self, i[1]) ELSE Ok(h)}})

DeregisterEach(h, self, cs, k) ==
    IF k > Len(cs) THEN Ok(h)
    ELSE The({(IF r.err # "ok" THEN r ELSE DeregisterEach(r.h, self, cs, k + 1)) :
                 r \in {_deregisterchild(h, self, cs[k])}})

\* appendChild without the void check of lines 176-180
appendChild_unguarded(h, self, child) ==
    LET h1 == [h EXCEPT !.children[self] = Some(Append(ChildSeq(h, self), child))]
    IN  _registerchild(h1, self, child)

\* appendChild that registers the child before it appends it, so that a failed
\* registration leaves the children list as it was
appendChild_registerfirst(h, self, child) ==
    IF h.children[self] = None /\ h.isvoid[self]
    THEN Raise(h, "VoidElement")
    ELSE The({(IF r.err # "ok" THEN r
               ELSE Ok([r.h EXCEPT !.children[self] = Some(Append(ChildSeq(r.h, self), child))])) :
                 r \in {_registerchild(h, self, child)}})

\* ---- Element.appendChild (line 168)
appendChild(h, self, child) ==
    IF h.children[self] = None /\ h.isvoid[self]
    THEN Raise(h, "VoidElement")
    ELSE LET h1 == [h EXCEPT !.children[self] = Some(Append(ChildSeq(h, self), child))]
         IN  _registerchild(h1, self, child)

\* removeChild without the else branch of lines 200-201: an element that has no
\* children returns normally
removeChild_lenient(h, self, child) ==
    IF ChildSeq(h, self) # <<>>
    THEN LET idx == IndexOf(ChildSeq(h, self), child)
         IN  IF idx = 0 THEN Raise(h, "NotFound")
             ELSE The({(IF r.err # "ok" THEN r
                        ELSE Return([r.h EXCEPT !.children[self] = Some(PopAt(ChildSeq(r.h, self), idx)),
                                                !.parent[child] = Null], child)) :
                          r \in {_deregisterchild(h, self, child)}})
    ELSE Return(h, child)

\* removeChild that fills the place of the removed child with the last child
\* instead of closing the gap
removeChild_swapremove(h, self, child) ==
    IF ChildSeq(h, self) # <<>>
    THEN LET idx == IndexOf(ChildSeq(h, self), child)
         IN  IF idx = 0 THEN Raise(h, "NotFound")
             ELSE The({(IF r.err # "ok" THEN r
                        ELSE Return([r.h EXCEPT !.children[self] =
                                        Some(PopAt([ChildSeq(r.h, self) EXCEPT
                                                      ![idx] = ChildSeq(r.h, self)[Len(ChildSeq(r.h, self))]],
                                                   Len(ChildSeq(r.h, self)))),
                                                !.parent[child] = Null], child)) :
                          r \in {_deregisterchild(h, self, child)}})
    ELSE Raise(h, "NotFound")

\* ---- Element.removeChild (line 186): ret is the element returned (line 199)
removeChild(h, self, child) ==
    IF ChildSeq(h, self) # <<>>
    THEN LET idx == IndexOf(ChildSeq(h, self), child)
         IN  IF idx = 0 THEN Raise(h, "NotFound")
             ELSE The({(IF r.err # "ok" THEN r
                        ELSE Return([r.h EXCEPT !.children[self] = Some(PopAt(ChildSeq(r.h, self), idx)),
                                                !.parent[child] = Null], child)) :
                          r \in {_deregisterchild(h, self, child)}})
    ELSE Raise(h, "NotFound")

\* ---- Element.remove (line 230)
remove(h, self) ==
    IF h.parent[self] # Null THEN removeChild(h, h.parent[self], self) ELSE Ok(h)

\* setAttribute with the assignment of line 134 made before the index update
setAttribute_writefirst(h, self, name, value) ==
    LET h0 == IF h.attributes[self] = None
              THEN [h EXCEPT !.attributes[self] = Some(<<>>)]
              ELSE h
        had == DictHas(h0.attributes[self][1], "id")
        hw == [h0 EXCEPT !.attributes[self] = Some(DictSet(h0.attributes[self][1], name, value))]
    IN  The({(IF name = "id" /\ r1.err = "ok" THEN _setid(r1.h, self, name, self) ELSE r1) :
                r1 \in {IF name = "id" /\ had THEN _removeid(hw, self, value) ELSE Ok(hw)}})

\* ---- Element.setAttribute (line 121)
setAttribute(h, self, name, value) ==
    LET h0 == IF h.attributes[self] = None
              THEN [h EXCEPT !.attributes[self] = Some(<<>>)]
              ELSE h
    IN  The({(IF r2.err # "ok" THEN r2
              ELSE Ok([r2.h EXCEPT !.attributes[self] =
                          Some(DictSet(r2.h.attributes[self][1], name, value))])) :
                r2 \in {(IF name = "id" /\ r1.err = "ok" THEN _setid(r1.h, self, name, self) ELSE r1) :
                r1 \in {IF name = "id" /\ DictHas(h0.attributes[self][1], "id")
                        THEN _removeid(h0, self, value)
                        ELSE Ok(h0)}}})

\* ---- Element.removeAttribute (line 136)
removeAttribute(h, self, name) ==
    IF h.attributes[self] # None /\ h.attributes[self][1] # <<>>
    THEN LET value == DictGet(h.attributes[self][1], name)
             h1 == [h EXCEPT !.attributes[self] = Some(DictPop(h.attributes[self][1], name))]
         IN  IF Truthy(value) /\ name = "id" THEN _removeid(h1, self, value[1]) ELSE Ok(h1)
    ELSE Ok(h)

\* ---- Element.getElementById (line 314): Null when nothing is found
RECURSIVE getElementById(_, _, _)
RECURSIVE FirstById(_, _, _, _)
getElementById(h, self, i) ==
    IF h.idcache[self] # None
    THEN IF i \in DOMAIN h.idcache[self][1] THEN h.idcache[self][1][i] ELSE Null
    ELSE IF id(h, self) = Some(i) THEN self
    ELSE FirstById(h, ChildSeq(h, self), i, 1)

FirstById(h, cs, i, k) ==
    IF k > Len(cs) THEN Null
    ELSE LET e == getElementById(h, cs[k], i)
         IN  IF e # Null THEN e ELSE FirstById(h, cs, i, k + 1)

\* ---- str.lower on the tag names the model uses (line 94)
lower(t) == IF t = "BR" THEN "br" ELSE t

\* ---- Element.__init__ (line 64).  attrs is a sequence of <<name, value>>.
RECURSIVE SetEach(_, _, _, _)
SetEach(h, self, attrs, k) ==
    IF k > Len(attrs) THEN Ok(h)
    ELSE The({(IF r.err # "ok" THEN r ELSE SetEach(r.h, self, attrs, k + 1)) :
                 r \in {setAttribute(h, self, attrs[k][1], attrs[k][2])}})

Element(h, tag, i, classname, attrs, cont, par, cache, void) ==
    LET self == h.alloc + 1
        h0 == [h EXCEPT !.alloc = self,
                        !.tagName[self] = lower(tag),
                        !.content[self] = cont,
                        !.parent[self] = par,
                        !.root[self] = IF cache THEN self ELSE Null,
                        !.idcache[self] = IF cache THEN Some(<<>>) ELSE None,
                        !.isvoid[self] = void \/ lower(tag) \in VOID_ELEMENTS,
                        !.attributes[self] = None,
                        !.children[self] = None]
    IN  \* an exception leaves the caller without the new Element: unless appendChild
        \* had already put it into par.children, nothing refers to it
        The({(IF r4.err # "ok" /\ (par = Null \/ self \notin ChildSet(r4.h, par))
              THEN Raise(h, r4.err)
              ELSE r4) :
            r4 \in {(IF r3.err = "ok" /\ par # Null THEN appendChild(r3.h, par, self) ELSE r3) :
            r3 \in {(IF r2.err = "ok" /\ Truthy(classname)
                     THEN setAttribute(r2.h, self, "class", classname[1])
                     ELSE r2) :
            r2 \in {(IF r1.err = "ok" /\ Truthy(i) THEN setAttribute(r1.h, self, "id", i[1]) ELSE r1) :
            r1 \in {SetEach(h0, self, attrs, 1)}}}}})

\* ---- Element.text (line 433) and Element.comment (line 446): a tagless void
\* element that carries the string as its content
text(h, self, t) == Element(h, "", None, None, <<>>, Some(t), self, FALSE, TRUE)

comment(h, self, c) ==
    Element(h, "", None, None, <<>>, Some("<!-- " \o c \o " -->"), self, FALSE, TRUE)

\* ---- Element.doctype (line 425)
doctype(h, self, t) == Element(h, "", None, None, <<>>, Some(t), self, FALSE, TRUE)

\* ---- Element.html (line 461), Element.head (line 482), Element.body (line 533)
Element_html(h, self) == Element(h, "html", None, None, <<>>, None, self, FALSE, FALSE)

Element_head(h, self) == Element(h, "head", None, None, <<>>, None, self, FALSE, FALSE)

Element_body(h, self, attrs) == Element(h, "body", None, None, attrs, None, self, FALSE, FALSE)

\* ---- Element.title (line 522): a title element with the text as its child
Element_title(h, self, t) ==
    The({(IF e.err # "ok" THEN e ELSE text(e.h, e.h.alloc, t)) :
            e \in {Element(h, "title", None, None, <<>>, None, self, FALSE, FALSE)}})

\* ---- makeroot (line 50)
makeroot(h, tag) == Element(h, tag, None, None, <<>>, None, Null, TRUE, FALSE)

\* ---- makedocument (line 36).  The document is element h.alloc + 1, the doctype
\* the next, html the one after, head the one after that.
makedocument_anytitle(h, t) ==
    LET document == h.alloc + 1
        html_ == h.alloc + 3
        head_ == h.alloc + 4
    IN  The({(IF r5.err # "ok" THEN r5 ELSE Element_body(r5.h, html_, <<>>)) :
            r5 \in {(IF r4.err = "ok" /\ t # None THEN Element_title(r4.h, head_, t[1]) ELSE r4) :
            r4 \in {(IF r3.err # "ok" THEN r3 ELSE Element_head(r3.h, html_)) :
            r3 \in {(IF r2.err # "ok" THEN r2 ELSE Element_html(r2.h, document)) :
            r2 \in {(IF r1.err # "ok" THEN r1 ELSE doctype(r1.h, document, "<!DOCTYPE html>")) :
            r1 \in {Element(h, "", None, None, <<>>, None, Null, TRUE, FALSE)}}}}}})

makedocument(h, t) ==
    LET document == h.alloc + 1
        html_ == h.alloc + 3
        head_ == h.alloc + 4
    IN  The({(IF r5.err # "ok" THEN r5 ELSE Element_body(r5.h, html_, <<>>)) :
            r5 \in {(IF r4.err = "ok" /\ Truthy(t) THEN Element_title(r4.h, head_, t[1]) ELSE r4) :
            r4 \in {(IF r3.err # "ok" THEN r3 ELSE Element_head(r3.h, html_)) :
            r3 \in {(IF r2.err # "ok" THEN r2 ELSE Element_html(r2.h, document)) :
            r2 \in {(IF r1.err # "ok" THEN r1 ELSE doctype(r1.h, document, "<!DOCTYPE html>")) :
            r1 \in {Element(h, "", None, None, <<>>, None, Null, TRUE, FALSE)}}}}}})

\* ---- class parser (line 2369).  HTMLParser.feed cuts the text into handler calls;
\* a call is a record [kind, data, attrs].
StartTag(tag, attrs) == [kind |-> "starttag", data |-> tag, attrs |-> attrs]
EndTag(tag) == [kind |-> "endtag", data |-> tag, attrs |-> <<>>]
Data(d) == [kind |-> "data", data |-> d, attrs |-> <<>>]
Comment(d) == [kind |-> "comment", data |-> d, attrs |-> <<>>]
Decl(d) == [kind |-> "decl", data |-> d, attrs |-> <<>>]

\* the handler calls that feed makes for the texts the model parses
HandlerCalls(html) ==
    CASE html = "" -> <<>>
      [] html = "hello" -> <<Data("hello")>>
      [] html = "<p>hello</p>" -> <<StartTag("p", <<>>), Data("hello"), EndTag("p")>>
      [] html = "<p id=\"a\"></p>" -> <<StartTag("p", <<<<"id", "a">>>>), EndTag("p")>>
      [] html = "<ul><li>a</li><li>b</li></ul>" ->
            <<StartTag("ul", <<>>), StartTag("li", <<>>), Data("a"), EndTag("li"),
              StartTag("li", <<>>), Data("b"), EndTag("li"), EndTag("ul")>>
      [] html = "<p>&lt;b&gt;</p>" -> <<StartTag("p", <<>>), Data("<b>"), EndTag("p")>>
      [] html = "<p><b></p>" -> <<StartTag("p", <<>>), StartTag("b", <<>>), EndTag("p")>>
      [] html = "<div><span></div>" ->
            <<StartTag("div", <<>>), StartTag("span", <<>>), EndTag("div")>>
      [] html = "<p>" -> <<StartTag("p", <<>>)>>
      [] html = "</div>" -> <<EndTag("div")>>
      [] html = "</div><p>" -> <<EndTag("div"), StartTag("p", <<>>)>>
      [] html = "<!DOCTYPE html>" -> <<Decl("DOCTYPE html")>>
      [] html = "<!-- c -->" -> <<Comment(" c ")>>

\* the number of Elements the handler calls construct
NewElements(cs) == Len(SelectSeq(cs, LAMBDA c : c.kind # "endtag"))

Parsed(h, stack, e) == [h |-> h, stack |-> stack, err |-> e]

\* parser.handle_starttag (line 2382)
handle_starttag(h, stack, tag, attrs) ==
    IF stack = <<>> THEN Parsed(h, stack, "IndexError")
    ELSE The({(IF r.err # "ok" THEN Parsed(r.h, stack, r.err)
               ELSE Parsed(r.h, Append(stack, r.h.alloc), "ok")) :
                 r \in {Element(h, tag, None, None, attrs, None, stack[Len(stack)], FALSE, FALSE)}})

\* parser.handle_endtag (line 2386)
handle_endtag_unchecked(h, stack, tag) ==
    IF stack = <<>> THEN Parsed(h, stack, "IndexError")
    ELSE Parsed(h, SubSeq(stack, 1, Len(stack) - 1), "ok")

handle_endtag(h, stack, tag) ==
    IF stack = <<>> THEN Parsed(h, stack, "IndexError")
    ELSE LET e == stack[Len(stack)]
             rest == SubSeq(stack, 1, Len(stack) - 1)
         IN  IF h.tagName[e] # tag THEN Parsed(h, rest, "TagMismatch") ELSE Parsed(h, rest, "ok")

\* parser.handle_data (line 2393)
handle_data(h, stack, data) ==
    IF stack = <<>> THEN Parsed(h, stack, "IndexError")
    ELSE The({Parsed(r.h, stack, r.err) : r \in {text(h, stack[Len(stack)], data)}})

\* parser.handle_comment (line 2396)
handle_comment(h, stack, data) ==
    IF stack = <<>> THEN Parsed(h, stack, "IndexError")
    ELSE The({Parsed(r.h, stack, r.err) :
                 r \in {comment(h, stack[Len(stack)], "<!-- " \o data \o " -->")}})

\* parser.handle_decl (line 2399)
handle_decl(h, stack, decl) ==
    IF stack = <<>> THEN Parsed(h, stack, "IndexError")
    ELSE The({Parsed(r.h, stack, r.err) :
                 r \in {comment(h, stack[Len(stack)], "<!" \o decl \o ">")}})

\* HTMLParser.feed: the handler calls in order, up to the first that raises
RECURSIVE feed(_, _, _, _)
feed(h, stack, cs, k) ==
    IF k > Len(cs) THEN Parsed(h, stack, "ok")
    ELSE LET c == cs[k]
         IN  The({(IF r.err # "ok" THEN r ELSE feed(r.h, r.stack, cs, k + 1)) :
                     r \in {CASE c.kind = "starttag" -> handle_starttag(h, stack, c.data, c.attrs)
                              [] c.kind = "endtag" -> handle_endtag(h, stack, c.data)
                              [] c.kind = "data" -> handle_data(h, stack, c.data)
                              [] c.kind = "comment" -> handle_comment(h, stack, c.data)
                              [] c.kind = "decl" -> handle_decl(h, stack, c.data)}})

\* parser.__init__ (line 2374): the stack holds the parent, or a new tagless root
parser_init(h, par) ==
    IF par # Null THEN Parsed(h, <<par>>, "ok")
    ELSE The({Parsed(r.h, <<r.h.alloc>>, r.err) : r \in {makeroot(h, "")}})

\* parser.get (line 2405): the element returned, Null when it raises
get_top(stack) ==
    IF stack = <<>> THEN [value |-> Null, err |-> "Unbalanced"]
    ELSE [value |-> stack[Len(stack)], err |-> "ok"]

get(stack) ==
    IF Len(stack) # 1 THEN [value |-> Null, err |-> "Unbalanced"]
    ELSE [value |-> stack[1], err |-> "ok"]

\* ---- the innerHTML setter (line 214).  The for loop of lines 224-225 walks
\* self.children by position while removeChild shortens that same list.
RECURSIVE RemoveEach(_, _, _)
RemoveEach(h, self, k) ==
    IF k > Len(ChildSeq(h, self)) THEN Ok(h)
    ELSE The({(IF r.err # "ok" THEN r ELSE RemoveEach(r.h, self, k + 1)) :
                 r \in {removeChild(h, self, ChildSeq(h, self)[k])}})

\* the setter without the void check of lines 221-222
innerHTML_set_unchecked(h, self, html) ==
    The({(IF r.err # "ok" THEN r
          ELSE The({[h |-> f.h, err |-> f.err] : f \in {feed(r.h, <<self>>, HandlerCalls(html), 1)}})) :
            r \in {IF ChildSeq(h, self) # <<>> THEN RemoveEach(h, self, 1) ELSE Ok(h)}})

innerHTML_set(h, self, html) ==
    IF h.isvoid[self] THEN Raise(h, "VoidElement")
    ELSE The({(IF r.err # "ok" THEN r
               ELSE The({[h |-> f.h, err |-> f.err] :
                            f \in {feed(r.h, <<self>>, HandlerCalls(html), 1)}})) :
                 r \in {IF ChildSeq(h, self) # <<>> THEN RemoveEach(h, self, 1) ELSE Ok(h)}})

\* ---- Element.getElementsByTagName (line 338)
RECURSIVE getElementsByTagName(_, _, _)
RECURSIVE TagEach(_, _, _, _)
getElementsByTagName(h, self, tag) ==
    (IF h.tagName[self] = tag THEN <<self>> ELSE <<>>) \o TagEach(h, ChildSeq(h, self), tag, 1)

TagEach(h, cs, tag, k) ==
    IF k > Len(cs) THEN <<>>
    ELSE getElementsByTagName(h, cs[k], tag) \o TagEach(h, cs, tag, k + 1)

\* Element.getElementByTagName (line 357): self when its tag matches, else the first
\* result among the children's that is an element, else None (Null).  An Element is
\* always true in "if e", as the class defines neither __bool__ nor __len__.
RECURSIVE getElementByTagName(_, _, _)
RECURSIVE FirstTag(_, _, _, _)
getElementByTagName_childrenfirst(h, self, tag) ==
    The({(IF e # Null THEN e ELSE IF h.tagName[self] = tag THEN self ELSE Null) :
            e \in {FirstTag(h, ChildSeq(h, self), tag, 1)}})

getElementByTagName(h, self, tag) ==
    IF h.tagName[self] = tag THEN self
    ELSE FirstTag(h, ChildSeq(h, self), tag, 1)

FirstTag(h, cs, tag, k) ==
    IF k > Len(cs) THEN Null
    ELSE The({(IF e # Null THEN e ELSE FirstTag(h, cs, tag, k + 1)) :
                 e \in {getElementByTagName(h, cs[k], tag)}})

\* ---- Element.renderlist (line 379): the list of strings that make up the html
\* the f-string of line 393 for each item of the attributes dict
AttributeStrings(d) == [k \in 1..Len(d) |-> " " \o d[k][1] \o "=\"" \o d[k][2] \o "\""]

OpenTag(h, self) ==
    <<"<" \o h.tagName[self]>>
        \o (IF h.attributes[self] # None THEN AttributeStrings(h.attributes[self][1]) ELSE <<>>)

RECURSIVE renderlist(_, _)
RECURSIVE RenderEach(_, _, _)
\* renderlist that leaves out the return of line 397
renderlist_voidfallsthrough(h, self) ==
    LET tag == h.tagName[self]
    IN  (IF tag # "" THEN OpenTag(h, self) \o (IF h.isvoid[self] THEN <<" />">> ELSE <<">">>) ELSE <<>>)
            \o (IF Truthy(h.content[self]) THEN <<h.content[self][1]>> ELSE <<>>)
            \o RenderEach(h, ChildSeq(h, self), 1)
            \o (IF tag # "" THEN <<"</" \o tag \o ">">> ELSE <<>>)

renderlist(h, self) ==
    LET tag == h.tagName[self]
    IN  IF tag # "" /\ h.isvoid[self]
        THEN OpenTag(h, self) \o <<" />">>
        ELSE (IF tag # "" THEN OpenTag(h, self) \o <<">">> ELSE <<>>)
                \o (IF Truthy(h.content[self]) THEN <<h.content[self][1]>> ELSE <<>>)
                \o RenderEach(h, ChildSeq(h, self), 1)
                \o (IF tag # "" THEN <<"</" \o tag \o ">">> ELSE <<>>)

RenderEach(h, cs, k) ==
    IF k > Len(cs) THEN <<>> ELSE renderlist(h, cs[k]) \o RenderEach(h, cs, k + 1)

\* "".join(list)
RECURSIVE Join(_)
Join(ss) == IF ss = <<>> THEN "" ELSE Head(ss) \o Join(Tail(ss))

\* render that joins the children's strings ahead of the element's content
render_childrenfirst(h, self) ==
    LET tag == h.tagName[self]
    IN  IF tag # "" /\ h.isvoid[self]
        THEN Join(renderlist(h, self))
        ELSE Join((IF tag # "" THEN OpenTag(h, self) \o <<">">> ELSE <<>>)
                      \o RenderEach(h, ChildSeq(h, self), 1)
                      \o (IF Truthy(h.content[self]) THEN <<h.content[self][1]>> ELSE <<>>)
                      \o (IF tag # "" THEN <<"</" \o tag \o ">">> ELSE <<>>))

\* ---- Element.render (line 412)
render(h, self) == Join(renderlist(h, self))

\* ---- the state machine: one action per public call
SetHeap(h) ==
    /\ alloc' = h.alloc
    /\ tagName' = h.tagName
    /\ content' = h.content
    /\ parent' = h.parent
    /\ root' = h.root
    /\ idcache' = h.idcache
    /\ isvoid' = h.isvoid
    /\ attributes' = h.attributes
    /\ children' = h.children

Call(op, self, arg, name, value, r) ==
    /\ calls > 0
    /\ SetHeap(r.h)
    /\ err' = r.err
    /\ last' = [op |-> op, self |-> self, arg |-> arg, name |-> name, value |-> value]
    /\ calls' = calls - 1
    /\ UNCHANGED <<elementstack, parserparent>>

Created == 1..alloc

\* nothing constructed yet, with room for the elements of N
Blank(N) ==
    /\ alloc = 0
    /\ tagName = [n \in N |-> ""]
    /\ content = [n \in N |-> None]
    /\ parent = [n \in N |-> Null]
    /\ root = [n \in N |-> Null]
    /\ idcache = [n \in N |-> None]
    /\ isvoid = [n \in N |-> FALSE]
    /\ attributes = [n \in N |-> None]
    /\ children = [n \in N |-> None]
    /\ err = "ok"
    /\ last = [op |-> "none", self |-> Null, arg |-> Null, name |-> "", value |-> ""]
    /\ elementstack = None
    /\ parserparent = Null

Empty == Blank(Nodes)

Init == Empty /\ calls = MaxCalls

\* Element(tag, id=i, parent=par, idcache=cache, isvoid=void)
Construct(tag, i, par, cache, void) ==
    /\ alloc < MaxNodes
    /\ par # Null => Len(ChildSeq(Heap, par)) < MaxChildren
    /\ Call("Element", alloc + 1, par, tag, IF i = None THEN "" ELSE i[1],
            Element(Heap, tag, i, None, <<>>, None, par, cache, void))

\* p.appendChild(c).  The source leaves it to the caller not to build a circular
\* structure (lines 9-11): c is no ancestor of p, nor p itself.
AppendChild(p, c) ==
    /\ p \notin Subtree(Heap, c)
    /\ Len(ChildSeq(Heap, p)) < MaxChildren
    /\ Call("appendChild", p, c, "", "", appendChild(Heap, p, c))

\* p.removeChild(c)
RemoveChild(p, c) ==
    Call("removeChild", p, c, "",
         IF removeChild(Heap, p, c).err = "ok" THEN removeChild(Heap, p, c).ret ELSE "",
         removeChild(Heap, p, c))

\* n.remove()
Remove(n) == Call("remove", n, Null, "", "", remove(Heap, n))

\* n.setAttribute(name, value)
SetAttribute(n, name, value) ==
    Call("setAttribute", n, Null, name, value, setAttribute(Heap, n, name, value))

\* n.removeAttribute(name)
RemoveAttribute(n, name) ==
    Call("removeAttribute", n, Null, name, "", removeAttribute(Heap, n, name))

\* The attribute and index operations on a tree of plain elements.
Next ==
    \/ \E i \in {None} \cup {Some(v) : v \in IdValues},
          par \in Created \cup {Null}, cache \in BOOLEAN :
          Construct("div", i, par, cache, FALSE)
    \/ \E p \in Created, c \in Created : AppendChild(p, c)
    \/ \E p \in Created, c \in Created : RemoveChild(p, c)
    \/ \E n \in Created, value \in IdValues : SetAttribute(n, "id", value)
    \/ \E n \in Created : RemoveAttribute(n, "id")

Spec == Init /\ [][Next]_vars

\* Longer runs of construction, appendChild, removeChild and remove alone; the
\* caller removes elements that are children (Spec and SpecVoid also try the others).
InitTree == Empty /\ calls = MaxTreeCalls

NextTree ==
    \/ \E i \in {None, Some("a")}, par \in Created \cup {Null}, cache \in BOOLEAN :
          Construct("div", i, par, cache, FALSE)
    \/ \E p \in Created, c \in Created : AppendChild(p, c)
    \/ \E p \in Created : \E c \in ChildSet(Heap, p) : RemoveChild(p, c)
    \/ \E n \in {m \in Created : parent[m] # Null} : Remove(n)

SpecTree == InitTree /\ [][NextTree]_vars

\* Trees that only grow: construction and appendChild, no removeChild.
InitGrow == Empty /\ calls = MaxGrowCalls

NextGrow ==
    \/ \E i \in {None, Some("a")}, par \in Created \cup {Null}, cache \in BOOLEAN :
          Construct("div", i, par, cache, FALSE)
    \/ \E p \in Created, c \in Created : AppendChild(p, c)

SpecGrow == InitGrow /\ [][NextGrow]_vars

\* Void and non-void elements, by tag and by flag.
InitVoid == Empty /\ calls = MaxVoidCalls

NextVoid ==
    \/ \E tag \in TagNames, i \in {None, Some("a")}, par \in Created \cup {Null},
          void \in BOOLEAN :
          Construct(tag, i, par, FALSE, void)
    \/ \E p \in Created, c \in Created : AppendChild(p, c)
    \/ \E p \in Created, c \in Created : RemoveChild(p, c)
    \/ \E n \in Created : Remove(n)

SpecVoid == InitVoid /\ [][NextVoid]_vars

\* Attributes removed from elements of trees that were built, taken apart and put
\* together again.
InitAttr == Empty /\ calls = MaxAttrCalls

NextAttr ==
    \/ \E i \in {None, Some("a")}, par \in Created \cup {Null}, cache \in BOOLEAN :
          Construct("div", i, par, cache, FALSE)
    \/ \E p \in Created, c \in Created : AppendChild(p, c)
    \/ \E p \in Created : \E c \in ChildSet(Heap, p) : RemoveChild(p, c)
    \/ \E n \in Created, name \in AttrNames : RemoveAttribute(n, name)

SpecAttr == InitAttr /\ [][NextAttr]_vars

\* innerHTML assigned to elements with and without children, void ones included.
Markups == {"", "hello", "<p>hello</p>", "<p id=\"a\"></p>"}

\* n.innerHTML = html
SetInnerHTML(n, html) ==
    /\ alloc + NewElements(HandlerCalls(html)) <= MaxNodes
    /\ Call("innerHTML", n, Null, html, "", innerHTML_set(Heap, n, html))

InitInner == Empty /\ calls = MaxInnerCalls

NextInner ==
    \/ \E tag \in TagNames, i \in {None, Some("a")}, par \in Created \cup {Null},
          cache \in BOOLEAN :
          Construct(tag, i, par, cache, FALSE)
    \/ \E n \in Created, html \in Markups : SetInnerHTML(n, html)

SpecInner == InitInner /\ [][NextInner]_vars

\* Trees of elements with tags, attributes and content, rendered and searched by tag.
\* The constructor arguments the elements are made with:
Shapes ==
    {[tag |-> "div", id |-> Some("x"), attrs |-> <<>>, content |-> None, void |-> FALSE],
     [tag |-> "div", id |-> Some("x"), attrs |-> <<<<"class", "c">>>>, content |-> None, void |-> FALSE],
     [tag |-> "p", id |-> None, attrs |-> <<>>, content |-> None, void |-> FALSE],
     [tag |-> "", id |-> None, attrs |-> <<>>, content |-> Some("hello"), void |-> TRUE],
     [tag |-> "", id |-> None, attrs |-> <<>>, content |-> Some("hello"), void |-> FALSE],
     [tag |-> "img", id |-> None, attrs |-> <<<<"src", "a.png">>>>, content |-> None, void |-> FALSE],
     [tag |-> "img", id |-> None, attrs |-> <<<<"src", "a.png">>>>, content |-> Some("hello"), void |-> FALSE]}

SearchTags == {"div", "p", ""}

\* Element(s.tag, id=s.id, attributes=s.attrs, content=s.content, parent=par, isvoid=s.void)
Build(s, par) ==
    /\ alloc < MaxNodes
    /\ par # Null => Len(ChildSeq(Heap, par)) < MaxChildren
    /\ Call("Element", alloc + 1, par, s.tag, "",
            Element(Heap, s.tag, s.id, None, s.attrs, s.content, par, FALSE, s.void))

\* a call that returns a value and assigns nothing: last.value is what it returned
Returns(op, self, name, value) ==
    /\ calls > 0
    /\ UNCHANGED fields
    /\ err' = "ok"
    /\ last' = [op |-> op, self |-> self, arg |-> Null, name |-> name, value |-> value]
    /\ calls' = calls - 1
    /\ UNCHANGED <<elementstack, parserparent>>

\* n.render()
Render(n) == Returns("render", n, "", render(Heap, n))

\* n.getElementsByTagName(tag)
GetElementsByTagName(n, tag) ==
    Returns("getElementsByTagName", n, tag, getElementsByTagName(Heap, n, tag))

\* n.getElementByTagName(tag): last.value is the element returned, Null for None
GetElementByTagName(n, tag) ==
    Returns("getElementByTagName", n, tag, getElementByTagName(Heap, n, tag))

InitRender == Empty /\ calls = MaxRenderCalls

NextRender ==
    \/ \E s \in Shapes, par \in Created \cup {Null} : Build(s, par)
    \/ \E n \in Created : Render(n)
    \/ \E n \in Created, tag \in SearchTags : GetElementsByTagName(n, tag)
    \/ \E n \in Created, tag \in SearchTags : GetElementByTagName(n, tag)

SpecRender == InitRender /\ [][NextRender]_vars

\* Tag searches in structures of up to MaxNodes elements, built by construction
\* and appendChild.
InitSearch == Empty /\ calls = MaxSearchCalls

NextSearch ==
    \/ \E tag \in {"div", "p"}, par \in Created \cup {Null} :
          Construct(tag, None, par, FALSE, FALSE)
    \/ \E p \in Created, c \in Created : AppendChild(p, c)
    \/ \E n \in Created, tag \in {"div", "p"} : GetElementsByTagName(n, tag)
    \/ \E n \in Created, tag \in {"div", "p"} : GetElementByTagName(n, tag)

SpecSearch == InitSearch /\ [][NextSearch]_vars

\* Documents made by makedocument and fragments parsed under a parent, rendered.
DocNodes == 1..MaxDocNodes

ParseMarkups ==
    {"", "<p>hello</p>", "<ul><li>a</li><li>b</li></ul>", "<p>&lt;b&gt;</p>", "<p><b></p>",
     "<div><span></div>", "<p>", "</div>", "</div><p>", "<!DOCTYPE html>", "<!-- c -->"}

Titles == {None, Some(""), Some("T")}

\* makedocument(title): last.arg is the document returned
MakeDocument(t) ==
    /\ alloc + 7 <= MaxDocNodes
    /\ Call("makedocument", Null, alloc + 1, IF t = None THEN "" ELSE t[1], "",
            makedocument(Heap, t))

\* Element(tag): an element for a parser to fill
Parent(tag) ==
    /\ alloc < MaxDocNodes
    /\ Call("Element", alloc + 1, Null, tag, "",
            Element(Heap, tag, None, None, <<>>, None, Null, FALSE, FALSE))

\* parser(parent=par), or parser() when par is Null
NewParser(par) ==
    /\ calls > 0
    /\ alloc < MaxDocNodes
    /\ LET r == parser_init(Heap, par)
       IN  /\ SetHeap(r.h)
           /\ err' = r.err
           /\ elementstack' = Some(r.stack)
    /\ parserparent' = (IF par # Null THEN par ELSE alloc + 1)
    /\ last' = [op |-> "parser", self |-> Null, arg |-> par, name |-> "", value |-> ""]
    /\ calls' = calls - 1

\* ps.feed(html), the whole text in one piece to the parser just made
Feed(html) ==
    /\ calls > 0
    /\ elementstack # None
    /\ last.op = "parser"
    /\ alloc + NewElements(HandlerCalls(html)) <= MaxDocNodes
    /\ LET r == feed(Heap, elementstack[1], HandlerCalls(html), 1)
       IN  /\ SetHeap(r.h)
           /\ err' = r.err
           /\ elementstack' = Some(r.stack)
    /\ UNCHANGED parserparent
    /\ last' = [op |-> "feed", self |-> Null, arg |-> Null, name |-> html, value |-> ""]
    /\ calls' = calls - 1

\* ps.get(): last.arg is the element returned
Get ==
    /\ calls > 0
    /\ elementstack # None
    /\ UNCHANGED <<fields, elementstack, parserparent>>
    /\ err' = get(elementstack[1]).err
    /\ last' = [op |-> "get", self |-> Null, arg |-> get(elementstack[1]).value, name |-> "",
                value |-> ""]
    /\ calls' = calls - 1

InitParse == Blank(DocNodes) /\ calls = MaxParseCalls

NextParse ==
    \/ \E t \in Titles : MakeDocument(t)
    \/ \E tag \in {"", "div"} : Parent(tag)
    \/ \E par \in Created \cup {Null} : NewParser(par)
    \/ \E html \in ParseMarkups : Feed(html)
    \/ Get
    \/ \E n \in Created : Render(n)

SpecParse == InitParse /\ [][NextParse]_vars

\* ---- vocabulary of the claims
IndexRoots(h) == {r \in 1..h.alloc : h.idcache[r] # None}

\* the elements strictly below r that carry id s
HoldersUnder(h, r, s) == {n \in Descendants(h, r) : id(h, n) = Some(s)}

\* how often n occurs in children lists
Occurrences(h, n) ==
    Cardinality({pk \in Nodes \X (1..(MaxChildren + 1)) :
                    pk[2] <= Len(ChildSeq(h, pk[1])) /\ ChildSeq(h, pk[1])[pk[2]] = n})

\* every element is a child of at most one element, and at most once
ProperTree(h) == \A n \in Nodes : Occurrences(h, n) <= 1

\* C1: under a root R that holds an index, in a tree built by construction,
\* appendChild and removeChild, R.getElementById(S) is the one element below R whose
\* id is S when there is one, and None when there is none.
C1_IndexMatchesTree ==
    ProperTree(Heap) =>
        \A r \in IndexRoots(Heap) : \A s \in IdValues :
            /\ HoldersUnder(Heap, r, s) = {} => getElementById(Heap, r, s) = Null
            /\ \A n \in Nodes : HoldersUnder(Heap, r, s) = {n} => getElementById(Heap, r, s) = n

\* C2: after a successful P.removeChild(C), with P an index-holding root R or below
\* one, R.getElementById(S) is None for the id S of every element of C's subtree.
C2_RemovedIdsNotFound ==
    (last.op = "removeChild" /\ err = "ok") =>
        \A r \in IndexRoots(Heap) :
            last.self \in Subtree(Heap, r) =>
                \A n \in Subtree(Heap, last.arg) :
                    Truthy(id(Heap, n)) => getElementById(Heap, r, id(Heap, n)[1]) = Null

\* C3: every element reachable through the children lists of an index-holding root
\* R has root R, and every element reachable from no index-holding root has root None.
C3_RootRefMatchesTree ==
    /\ \A r \in IndexRoots(Heap) : \A n \in Descendants(Heap, r) : root[n] = r
    /\ \A n \in Created :
          (\A r \in IndexRoots(Heap) : n \notin Subtree(Heap, r)) => root[n] = Null

\* C4: a successful P.removeChild(C) leaves root None on C and on every element
\* below C, and changes the root of no other element, P included.
C4_RemoveClearsSubtreeRoot ==
    [][(last'.op = "removeChild" /\ err' = "ok") =>
          /\ \A n \in Subtree(HeapNext, last'.arg) : root'[n] = Null
          /\ \A n \in Nodes \ Subtree(HeapNext, last'.arg) : root'[n] = root[n]]_vars

\* the elements of n's subtree in document order: n, then each child's subtree
RECURSIVE Preorder(_, _)
RECURSIVE PreorderEach(_, _, _)
Preorder(h, n) == <<n>> \o PreorderEach(h, ChildSeq(h, n), 1)

PreorderEach(h, cs, k) ==
    IF k > Len(cs) THEN <<>> ELSE Preorder(h, cs[k]) \o PreorderEach(h, cs, k + 1)

\* the first element in document order of c's subtree that carries id s
FirstHolder(h, c, s) ==
    LET po == Preorder(h, c)
    IN  po[CHOOSE k \in 1..Len(po) :
               id(h, po[k]) = Some(s) /\ \A j \in 1..(k - 1) : id(h, po[j]) # Some(s)]

Cache(h, r) == h.idcache[r][1]

\* C5: N is below an index-holding root R and carries id A, registered for N; B is
\* another id that is not in R's index.  N.setAttribute("id", B) makes
\* R.getElementById(B) = N and R.getElementById(A) = None and adds or removes no
\* other key of the index.
C5_SetIdReplacesEntry ==
    [][(last'.op = "setAttribute" /\ last'.name = "id") =>
          \A r \in IndexRoots(Heap) :
              LET n == last'.self
                  a == id(Heap, n)
                  b == last'.value
              IN  (/\ ProperTree(Heap)
                   /\ n \in Descendants(Heap, r)
                   /\ root[n] = r
                   /\ Truthy(a)
                   /\ a[1] # b
                   /\ getElementById(Heap, r, a[1]) = n
                   /\ b \notin DOMAIN Cache(Heap, r))
                  => /\ getElementById(HeapNext, r, b) = n
                     /\ getElementById(HeapNext, r, a[1]) = Null
                     /\ DOMAIN Cache(HeapNext, r) \ {a[1], b} = DOMAIN Cache(Heap, r) \ {a[1], b}]_vars

\* C6: N is below an index-holding root R.  N.setAttribute("id", V) raises the
\* duplicate-id error when R's index has V for another element, and does not raise
\* it when V is not in R's index.
C6_SetIdDuplicateError ==
    [][(last'.op = "setAttribute" /\ last'.name = "id") =>
          \A r \in IndexRoots(Heap) :
              LET n == last'.self
                  v == last'.value
              IN  (ProperTree(Heap) /\ n \in Descendants(Heap, r) /\ root[n] = r)
                  => /\ (v \in DOMAIN Cache(Heap, r) /\ Cache(Heap, r)[v] # n)
                           => err' = "DuplicateId"
                     /\ v \notin DOMAIN Cache(Heap, r) => err' # "DuplicateId"]_vars

\* C7: P is an index-holding root R or below one, no element of R's tree carries id
\* S, and C is a detached subtree in which two or more elements carry S.
\* P.appendChild(C) raises the duplicate-id error and leaves R's index with S for the
\* first of them in document order.
C7_DuplicateInSubtree ==
    [][(last'.op = "appendChild") =>
          \A r \in IndexRoots(Heap) : \A s \in IdValues :
              LET p == last'.self
                  c == last'.arg
              IN  (/\ ProperTree(Heap)
                   /\ p \in Subtree(Heap, r)
                   /\ Occurrences(Heap, c) = 0
                   /\ c \notin Subtree(Heap, r)
                   /\ \A n \in Subtree(Heap, r) : id(Heap, n) # Some(s)
                   /\ Cardinality({n \in Subtree(Heap, c) : id(Heap, n) = Some(s)}) >= 2)
                  => /\ err' = "DuplicateId"
                     /\ getElementById(HeapNext, r, s) = FirstHolder(Heap, c, s)]_vars

\* a void element: the isvoid flag is set, or the tag is one of the void tags
IsVoid(h, n) == h.isvoid[n] \/ h.tagName[n] \in VOID_ELEMENTS

\* C8: a void element never has a children list; appendChild on it, and the
\* construction of an element with it as parent, raise the void-element error.
C8_VoidHasNoChildren ==
    /\ \A n \in Created : IsVoid(Heap, n) => children[n] = None
    /\ (last.op = "appendChild" /\ IsVoid(Heap, last.self)) => err = "VoidElement"
    /\ (last.op = "Element" /\ last.arg # Null /\ IsVoid(Heap, last.arg)) => err = "VoidElement"

\* C8 witness: appendChild has just been refused on an element that is void by its
\* tag, and the construction of a child has been refused on one that is void by flag
C8_Witness ==
    /\ last.op = "appendChild"
    /\ err = "VoidElement"
    /\ tagName[last.self] = "br"
    /\ children[last.self] = None
    /\ \E n \in Created : isvoid[n] /\ tagName[n] = "div"

\* C9: whenever C occurs in P.children, C.parent is P.
C9_ParentMatchesChildren ==
    \A p \in Created : \A c \in ChildSet(Heap, p) : parent[c] = p

\* C10: an element occurs in at most one children list, and at most once in it.
C10_SingleOwner == ProperTree(Heap)

\* C11 as stated: when N.setAttribute("id", V) raises the duplicate-id error, the
\* attribute has been written all the same: N.getAttribute("id") is V afterwards.
C11_FailedSetIdKeepsWrite ==
    [][(last'.op = "setAttribute" /\ last'.name = "id" /\ err' = "DuplicateId") =>
          getAttribute(HeapNext, last'.self, "id") = Some(last'.value)]_vars

\* C11: when N.setAttribute("id", V) raises the duplicate-id error, the attribute
\* has not been written: N.getAttribute("id") and the names and values of N's other
\* attributes are what they were before the call.
C11_FailedSetIdWritesNothing ==
    [][(last'.op = "setAttribute" /\ last'.name = "id" /\ err' = "DuplicateId") =>
          \A name \in AttrNames :
              getAttribute(HeapNext, last'.self, name) = getAttribute(Heap, last'.self, name)]_vars

\* C11 witness: setAttribute("id", V) has just raised the duplicate-id error on an
\* element whose id is still another value, and on one that has no id
C11_Witness ==
    /\ last.op = "setAttribute"
    /\ last.name = "id"
    /\ err = "DuplicateId"
    /\ id(Heap, last.self) # Some(last.value)
    /\ \E n \in Created : n # last.self /\ Truthy(id(Heap, n))

\* C12: N is below an index-holding root R and carries id S, registered for N in R's
\* index.  N.removeAttribute("id") leaves N without id and R.getElementById(S) None
\* and changes no other entry of R's index; removeAttribute of a name N does not
\* have changes nothing.
C12_RemoveAttributeDeregisters ==
    [][(last'.op = "removeAttribute") =>
          LET n == last'.self
              name == last'.name
          IN  /\ name = "id" =>
                    \A r \in IndexRoots(Heap) : \A s \in IdValues :
                        (/\ ProperTree(Heap)
                         /\ n \in Descendants(Heap, r)
                         /\ id(Heap, n) = Some(s)
                         /\ getElementById(Heap, r, s) = n)
                        => /\ getAttribute(HeapNext, n, "id") = None
                           /\ getElementById(HeapNext, r, s) = Null
                           /\ \A k \in IdValues \ {s} :
                                 getElementById(HeapNext, r, k) = getElementById(Heap, r, k)
              /\ getAttribute(Heap, n, name) = None => fields' = fields]_vars

\* C13: P.removeChild(C) raises the not-found error whenever C is not in P.children,
\* also when P has no children, and then no field of any element has changed.
C13_RemoveChildNotFound ==
    [][(last'.op = "removeChild" /\ last'.arg \notin ChildSet(Heap, last'.self)) =>
          (err' = "NotFound" /\ fields' = fields)]_vars

\* C13 witness: removeChild has just been refused for an element that is not among
\* the children P has, in a tree whose index has an entry
C13_Witness ==
    /\ last.op = "removeChild"
    /\ err = "NotFound"
    /\ ChildSeq(Heap, last.self) # <<>>
    /\ last.arg \notin ChildSet(Heap, last.self)
    /\ \E r \in IndexRoots(Heap) : DOMAIN Cache(Heap, r) # {}

\* C14: N occurs in P.children.  After N.remove(), N is not in P.children and no
\* index-holding root above P finds the id of an element of N's subtree, whether N
\* was attached by the constructor or by P.appendChild(N).
C14_RemoveDetaches ==
    [][(last'.op = "remove" /\ err' = "ok") =>
          \A p \in Created :
              LET n == last'.self
              IN  (ProperTree(Heap) /\ n \in ChildSet(Heap, p))
                  => /\ n \notin ChildSet(HeapNext, p)
                     /\ \A r \in IndexRoots(Heap) :
                           p \in Subtree(Heap, r) =>
                               \A m \in Subtree(Heap, n) :
                                   Truthy(id(Heap, m)) =>
                                       getElementById(HeapNext, r, id(Heap, m)[1]) = Null]_vars

\* the Elements constructed by the step
NewNodes == (alloc + 1)..alloc'

\* C15: after innerHTML is assigned on an element that is not void, none of the
\* children it had is in its children list, each of them has parent None, and the
\* list holds only elements the assignment constructed.
C15_InnerHTMLReplacesChildren ==
    [][(last'.op = "innerHTML" /\ err' = "ok" /\ ~IsVoid(Heap, last'.self)) =>
          LET n == last'.self
          IN  /\ \A c \in ChildSet(Heap, n) :
                    c \notin ChildSet(HeapNext, n) /\ parent'[c] = Null
              /\ ChildSet(HeapNext, n) \subseteq NewNodes]_vars

\* C16: innerHTML assigned on a void element raises the void-element error and
\* changes no field of any element.
C16_InnerHTMLOnVoid ==
    [][(last'.op = "innerHTML" /\ IsVoid(Heap, last'.self)) =>
          (err' = "VoidElement" /\ fields' = fields)]_vars

\* C16 witness: the assignment of markup that holds an element has just been refused
\* on a void element
C16_Witness ==
    /\ last.op = "innerHTML"
    /\ err = "VoidElement"
    /\ IsVoid(Heap, last.self)
    /\ last.name = "<p>hello</p>"
    /\ children[last.self] = None

\* n is in the tree of no element that holds an index
Unindexed(h, n) == h.idcache[n] = None /\ \A r \in IndexRoots(h) : n \notin Subtree(h, r)

\* C17: in a tree none of whose elements holds an index, P.appendChild(C), the
\* construction of an element with parent P and N.setAttribute("id", V) never raise
\* the duplicate-id error.
C17_NoIndexNoDuplicate ==
    [][/\ (last'.op = "appendChild" /\ ProperTree(Heap)
             /\ Unindexed(Heap, last'.self) /\ Unindexed(Heap, last'.arg))
          => err' # "DuplicateId"
       /\ (last'.op = "Element" /\ last'.arg # Null /\ ProperTree(Heap)
             /\ Unindexed(Heap, last'.arg))
          => err' # "DuplicateId"
       /\ (last'.op = "setAttribute" /\ ProperTree(Heap) /\ Unindexed(Heap, last'.self))
          => err' # "DuplicateId"]_vars

\* the attributes of a dict as they stand in an opening tag, in the order of the dict
RECURSIVE AttrText(_, _)
AttrText(d, k) ==
    IF k > Len(d) THEN ""
    ELSE " " \o d[k][1] \o "=\"" \o d[k][2] \o "\"" \o AttrText(d, k + 1)

AttrsOf(h, n) == IF h.attributes[n] = None THEN <<>> ELSE h.attributes[n][1]

\* the renderings of the elements of cs, one after the other
RECURSIVE ChildrenText(_, _, _)
ChildrenText(h, cs, k) ==
    IF k > Len(cs) THEN "" ELSE render(h, cs[k]) \o ChildrenText(h, cs, k + 1)

\* n is a div with id x whose only child is a p whose only child is the text hello
IsHelloTree(h, n) ==
    /\ h.tagName[n] = "div"
    /\ h.attributes[n] = Some(<<<<"id", "x">>>>)
    /\ h.content[n] = None
    /\ Len(ChildSeq(h, n)) = 1
    /\ LET p == ChildSeq(h, n)[1]
       IN  /\ h.tagName[p] = "p"
           /\ h.attributes[p] = None
           /\ h.content[p] = None
           /\ Len(ChildSeq(h, p)) = 1
           /\ LET t == ChildSeq(h, p)[1]
              IN  /\ h.tagName[t] = ""
                  /\ h.content[t] = Some("hello")
                  /\ h.children[t] = None

\* C18: render of an element that is not void returns, for a tag that is not empty,
\* "<tag", each attribute as ' name="value"' in insertion order, ">", the content if
\* set, the rendering of each child in order and "</tag>"; for an empty tag only the
\* content and the children; for div(id=x) > p > "hello" it returns
\* <div id="x"><p>hello</p></div>.
C18_RenderNonVoid ==
    (last.op = "render" /\ ~IsVoid(Heap, last.self)) =>
        LET n == last.self
            tag == tagName[n]
            inner == (IF Truthy(content[n]) THEN content[n][1] ELSE "")
                         \o ChildrenText(Heap, ChildSeq(Heap, n), 1)
        IN  /\ tag # "" =>
                  last.value = "<" \o tag \o AttrText(AttrsOf(Heap, n), 1) \o ">"
                                   \o inner \o "</" \o tag \o ">"
            /\ tag = "" => last.value = inner
            /\ IsHelloTree(Heap, n) => last.value = "<div id=\"x\"><p>hello</p></div>"

\* C18 witness: div(id=x) > p > "hello" has just been rendered
C18_Witness ==
    /\ last.op = "render"
    /\ IsHelloTree(Heap, last.self)
    /\ last.value = "<div id=\"x\"><p>hello</p></div>"

\* C19: render of a void element whose tag is not empty returns "<tag", the
\* attributes and " />" and nothing more, also when the element has content; for img
\* with src a.png it returns <img src="a.png" />.
C19_RenderVoid ==
    (last.op = "render" /\ IsVoid(Heap, last.self) /\ tagName[last.self] # "") =>
        LET n == last.self
        IN  /\ last.value = "<" \o tagName[n] \o AttrText(AttrsOf(Heap, n), 1) \o " />"
            /\ (tagName[n] = "img" /\ attributes[n] = Some(<<<<"src", "a.png">>>>))
                   => last.value = "<img src=\"a.png\" />"

\* C19 witness: an img with src a.png and with content has just been rendered
C19_Witness ==
    /\ last.op = "render"
    /\ tagName[last.self] = "img"
    /\ isvoid[last.self]
    /\ attributes[last.self] = Some(<<<<"src", "a.png">>>>)
    /\ content[last.self] = Some("hello")
    /\ last.value = "<img src=\"a.png\" />"

\* C20: N.getElementsByTagName(T) returns the elements of N's subtree whose tag is T,
\* each once, in document order.
C20_TagSearchPreorder ==
    (last.op = "getElementsByTagName") =>
        LET n == last.self
            v == last.value
            hits == {m \in Subtree(Heap, n) : tagName[m] = last.name}
        IN  /\ {v[k] : k \in 1..Len(v)} = hits
            /\ Len(v) = Cardinality(hits)
            /\ v = SelectSeq(Preorder(Heap, n), LAMBDA m : tagName[m] = last.name)

\* Fragments made of non-void elements and text, every tag closed in order
WellFormed == {"", "<p>hello</p>", "<ul><li>a</li><li>b</li></ul>", "<p>&lt;b&gt;</p>"}

\* parser().feed(txt), get() and render() of what get returned: Some(text), or None
\* when the parse fails
Reparse(h, txt) ==
    The({(IF f.err = "ok" /\ get(f.stack).err = "ok"
          THEN Some(render(f.h, get(f.stack).value)) ELSE None) :
            f \in {(IF r.err # "ok" THEN r ELSE feed(r.h, r.stack, HandlerCalls(txt), 1)) :
            r \in {parser_init(h, Null)}}})

\* C21: a well-formed fragment of non-void elements and text, parsed under a tagless
\* parent that had neither content nor children, renders from that parent as the input again, and the
\* output parsed and rendered once more is the same text.
C21_ParseRenderRoundTrip ==
    [][(/\ last'.op = "feed"
        /\ err' = "ok"
        /\ last'.name \in WellFormed
        /\ Len(elementstack[1]) = 1
        /\ tagName[elementstack[1][1]] = ""
        /\ content[elementstack[1][1]] = None
        /\ ChildSeq(Heap, elementstack[1][1]) = <<>>)
       => LET out == render(HeapNext, elementstack[1][1])
          IN  /\ out = last'.name
              /\ (alloc' + 1 + NewElements(HandlerCalls(out)) <= MaxDocNodes
                    => Reparse(HeapNext, out) = Some(out))]_vars

RECURSIVE OpenTags(_, _, _)
\* The tags open after the handler calls cs[k..] on a stack of elements with the tags
\* ts, and how the calls end: at the first closing tag that differs from the innermost
\* open tag, with that tag popped
OpenTags(ts, cs, k) ==
    IF k > Len(cs) THEN [tags |-> ts, err |-> "ok"]
    ELSE IF ts = <<>> THEN [tags |-> ts, err |-> "IndexError"]
    ELSE IF cs[k].kind = "starttag" THEN OpenTags(Append(ts, cs[k].data), cs, k + 1)
    ELSE IF cs[k].kind # "endtag" THEN OpenTags(ts, cs, k + 1)
    ELSE IF ts[Len(ts)] # cs[k].data
         THEN [tags |-> SubSeq(ts, 1, Len(ts) - 1), err |-> "TagMismatch"]
    ELSE OpenTags(SubSeq(ts, 1, Len(ts) - 1), cs, k + 1)

TagsOf(h, stack) == [k \in 1..Len(stack) |-> h.tagName[stack[k]]]

\* C22: while parsing, a closing tag that differs from the tag of the element on top of
\* the stack fails with the mismatched-tag error; one that matches pops the element
\* without error.
C22_EndTagMismatch ==
    [][(last'.op = "feed" /\ err' # "VoidElement")
       => LET x == OpenTags(TagsOf(Heap, elementstack[1]), HandlerCalls(last'.name), 1)
          IN  /\ err' = x.err
              /\ TagsOf(HeapNext, elementstack'[1]) = x.tags]_vars

\* C22 witness: <div><span></div> has just failed at </div> under a tagless parent,
\* the span popped and the div still open
C22_Witness ==
    /\ last.op = "feed"
    /\ last.name = "<div><span></div>"
    /\ err = "TagMismatch"
    /\ Len(elementstack[1]) = 2
    /\ tagName[elementstack[1][1]] = ""
    /\ tagName[elementstack[1][2]] = "div"
    /\ Len(ChildSeq(Heap, elementstack[1][2])) = 1
    /\ tagName[ChildSeq(Heap, elementstack[1][2])[1]] = "span"

\* C23: parser.get() fails with the unbalanced-tree error unless exactly one element is
\* left on the stack; with exactly one it returns the parent the parser was created with.
C23_GetNeedsOneElement ==
    [][(last'.op = "get")
       => IF Len(elementstack[1]) = 1
          THEN err' = "ok" /\ last'.arg = parserparent
          ELSE err' = "Unbalanced"]_vars

\* C23 witness: get has just returned the div a parser was created on, after a
\* balanced fragment was parsed into it
C23_Witness ==
    /\ last.op = "get"
    /\ err = "ok"
    /\ last.arg = parserparent
    /\ tagName[last.arg] = "div"
    /\ Len(ChildSeq(Heap, last.arg)) = 1
    /\ tagName[ChildSeq(Heap, last.arg)[1]] = "p"

\* C24: makedocument(title) returns a tagless index-holding root whose children are the
\* doctype node and an html element; html holds head, then an empty body; head holds one
\* title element with the title text when a non-empty title is given and nothing
\* otherwise; the document renders as the doctype, then html with head and body.
C24_MakeDocument ==
    (last.op = "makedocument" /\ err = "ok") =>
        LET d == last.arg
            t == last.name
            top == ChildSeq(Heap, d)
            inner == ChildSeq(Heap, top[2])
            held == ChildSeq(Heap, inner[1])
        IN  /\ tagName[d] = "" /\ idcache[d] # None /\ parent[d] = Null /\ content[d] = None
            /\ Len(top) = 2
            /\ tagName[top[1]] = "" /\ content[top[1]] = Some("<!DOCTYPE html>")
            /\ ChildSeq(Heap, top[1]) = <<>>
            /\ tagName[top[2]] = "html" /\ content[top[2]] = None
            /\ Len(inner) = 2
            /\ tagName[inner[1]] = "head" /\ tagName[inner[2]] = "body"
            /\ ChildSeq(Heap, inner[2]) = <<>> /\ content[inner[2]] = None
            /\ IF t # ""
               THEN /\ Len(held) = 1
                    /\ tagName[held[1]] = "title"
                    /\ Len(ChildSeq(Heap, held[1])) = 1
                    /\ tagName[ChildSeq(Heap, held[1])[1]] = ""
                    /\ content[ChildSeq(Heap, held[1])[1]] = Some(t)
               ELSE held = <<>>
            /\ render(Heap, d) =
                 "<!DOCTYPE html><html><head>"
                 \o (IF t # "" THEN "<title>" \o t \o "</title>" ELSE "")
                 \o "</head><body></body></html>"

\* C24 witness: makedocument("T") has just returned a document that renders with the
\* title T
C24_Witness ==
    /\ last.op = "makedocument"
    /\ err = "ok"
    /\ last.name = "T"
    /\ alloc = 7
    /\ render(Heap, last.arg) =
         "<!DOCTYPE html><html><head><title>T</title></head><body></body></html>"

\* C29: on the declaration <!DOCTYPE html> the parser appends to the element on top of
\* its stack one text child whose content is the declaration text itself, which renders
\* as <!DOCTYPE html> with no comment delimiters added.
C29_DeclarationKeptVerbatim ==
    [][(last'.op = "feed" /\ last'.name = "<!DOCTYPE html>" /\ err' = "ok")
       => LET top == elementstack[1][Len(elementstack[1])]
              new == alloc + 1
          IN  /\ ChildSeq(HeapNext, top) = Append(ChildSeq(Heap, top), new)
              /\ tagName'[new] = ""
              /\ content'[new] = Some("<!DOCTYPE html>")
              /\ render(HeapNext, new) = "<!DOCTYPE html>"]_vars

\* C28: N.getElementByTagName(T) returns the first element of N.getElementsByTagName(T),
\* and None exactly when that list is empty.
C28_FirstOfTagSearch ==
    (last.op = "getElementByTagName") =>
        LET all == getElementsByTagName(Heap, last.self, last.name)
        IN  /\ (last.value = Null) <=> (all = <<>>)
            /\ all # <<>> => last.value = all[1]

\* C28 witness: the search for p from a div has just returned the first of two p
\* elements below it
C28_Witness ==
    /\ last.op = "getElementByTagName"
    /\ last.name = "p"
    /\ tagName[last.self] = "div"
    /\ Len(getElementsByTagName(Heap, last.self, "p")) = 2
    /\ last.value = getElementsByTagName(Heap, last.self, "p")[1]

\* C25: R holds an index, nothing was removed from its tree, and P is R or an element
\* below R; after a successful P.appendChild(C), R.getElementById(S) is n for every
\* element n of C's subtree with a non-empty id S, and every entry R's index had
\* before is unchanged.
C25_AppendRegistersSubtree ==
    [][(last'.op = "appendChild" /\ err' = "ok")
       => \A r \in IndexRoots(Heap) :
             last'.self \in Subtree(Heap, r)
             => /\ idcache'[r] # None
                /\ \A n \in Subtree(Heap, last'.arg) :
                      Truthy(id(Heap, n)) => getElementById(HeapNext, r, id(Heap, n)[1]) = n
                /\ \A s \in DOMAIN Cache(Heap, r) :
                      /\ s \in DOMAIN Cache(HeapNext, r)
                      /\ Cache(HeapNext, r)[s] = Cache(Heap, r)[s]]_vars

\* C26: a successful P.removeChild(C) takes exactly one occurrence of C out of
\* P.children and keeps the other children in their order, sets C.parent to None,
\* returns C, and leaves C's own children and attributes as they were.
C26_RemoveChildFrame ==
    [][(last'.op = "removeChild" /\ err' = "ok")
       => LET p == last'.self
              c == last'.arg
              old == ChildSeq(Heap, p)
              new == ChildSeq(HeapNext, p)
          IN  /\ \E k \in 1..Len(old) :
                    /\ old[k] = c
                    /\ new = [j \in 1..(Len(old) - 1) |-> IF j < k THEN old[j] ELSE old[j + 1]]
              /\ parent'[c] = Null
              /\ last'.value = c
              /\ children'[c] = children[c]
              /\ attributes'[c] = attributes[c]]_vars

\* C26 witness: P.removeChild(C) has just returned C, which was constructed between
\* the two children P has left and stood between them; C keeps its id
C26_Witness ==
    /\ last.op = "removeChild"
    /\ err = "ok"
    /\ last.value = last.arg
    /\ Len(ChildSeq(Heap, last.self)) = 2
    /\ ChildSeq(Heap, last.self)[1] < last.arg
    /\ last.arg < ChildSeq(Heap, last.self)[2]
    /\ parent[ChildSeq(Heap, last.self)[1]] = last.self
    /\ parent[ChildSeq(Heap, last.self)[2]] = last.self
    /\ parent[last.arg] = Null
    /\ id(Heap, last.arg) = Some("a")

\* the elements that occur in some children list
Children(h) == UNION {ChildSet(h, p) : p \in 1..h.alloc}

\* C27: after P.appendChild(C) has returned, called directly or by Element(parent=P), C holds no
\* index of its own and every element of C's subtree has P's root reference as its
\* root reference (None when P has none); no element that occurs in a children list
\* ever holds an index.
C27_AppendTakesOwnership ==
    [][/\ \A n \in Children(HeapNext) : idcache'[n] = None
       /\ ((last'.op \in {"appendChild", "Element"} /\ last'.arg # Null /\ err' = "ok")
           => LET p == IF last'.op = "Element" THEN last'.arg ELSE last'.self
                  c == IF last'.op = "Element" THEN last'.self ELSE last'.arg
              IN  /\ idcache'[c] = None
                  /\ root'[p] = root[p]
                  /\ \A n \in Subtree(HeapNext, c) : root'[n] = root[p])]_vars

\* C27 witness: P.appendChild(C) has just put C, which held an index and has a child
\* with an id, under P below the index-holding root R: C has no index left, C and its
\* child have root R, and R's index knows the child's id
C27_Witness ==
    /\ last.op = "appendChild"
    /\ err = "ok"
    /\ root[last.self] \notin {Null, last.self}
    /\ idcache[last.arg] = None
    /\ root[last.arg] = root[last.self]
    /\ Len(ChildSeq(Heap, last.arg)) = 1
    /\ root[ChildSeq(Heap, last.arg)[1]] = root[last.self]
    /\ idcache[root[last.self]] # None
    /\ getElementById(Heap, root[last.self], "a") = ChildSeq(Heap, last.arg)[1]

\* C30: when P.appendChild(C) fails with the duplicate-id error, C is the last element
\* of P.children all the same and P renders with C inside; the elements of C's subtree
\* visited before the colliding one keep the root reference and the index entries the
\* call gave them, and those not yet visited are as they were.
C30_FailedAppendKeepsChild ==
    [][(last'.op = "appendChild" /\ err' = "DuplicateId")
       => LET p == last'.self
              c == last'.arg
              po == Preorder(Heap, c)
              rl == renderlist(HeapNext, p)
              rc == renderlist(HeapNext, c)
          IN  /\ ChildSeq(HeapNext, p) = Append(ChildSeq(Heap, p), c)
              /\ Len(rl) > Len(rc)
              /\ SubSeq(rl, Len(rl) - Len(rc), Len(rl) - 1) = rc
              /\ \E k \in 1..Len(po) :
                    /\ Truthy(id(Heap, po[k]))
                    /\ root'[po[k]] = root[p]
                    /\ \A j \in 1..(k - 1) :
                          /\ root'[po[j]] = root[p]
                          /\ idcache'[po[j]] = None
                          /\ Truthy(id(Heap, po[j]))
                             => \E r \in IndexRoots(HeapNext) :
                                   getElementById(HeapNext, r, id(Heap, po[j])[1]) = po[j]
                    /\ \A n \in {po[j] : j \in (k + 1)..Len(po)} \ {po[j] : j \in 1..k} :
                          root'[n] = root[n] /\ idcache'[n] = idcache[n]]_vars

\* C30 witness: P.appendChild(C) has just failed on the id of C's child, which the
\* index already holds for another element; C, with an id of its own, is P's last
\* child, has P's root reference and is in the index
C30_Witness ==
    /\ last.op = "appendChild"
    /\ err = "DuplicateId"
    /\ ChildSeq(Heap, last.self)[Len(ChildSeq(Heap, last.self))] = last.arg
    /\ root[last.self] # Null
    /\ root[last.arg] = root[last.self]
    /\ idcache[root[last.self]] # None
    /\ Truthy(id(Heap, last.arg))
    /\ getElementById(Heap, root[last.self], id(Heap, last.arg)[1]) = last.arg
    /\ Len(ChildSeq(Heap, last.arg)) = 1
    /\ Truthy(id(Heap, ChildSeq(Heap, last.arg)[1]))
    /\ getElementById(Heap, root[last.self], id(Heap, ChildSeq(Heap, last.arg)[1])[1])
          \notin {Null, ChildSeq(Heap, last.arg)[1]}

====
